---- MODULE Spec2Model ----
(***************************************************************************)
(* Model of saws/resources.py: the AwsResources store, its refresh/cache   *)
(* lifecycle, the four provider queries and the RESOURCES.txt reader and   *)
(* writer.                                                                 *)
(*                                                                         *)
(* A Python str is a sequence of one-character strings, so that the        *)
(* substring test `marker in line`, str.strip, str.split and re.sub are    *)
(* computed character by character as the code computes them.  The cache   *)
(* file is its text: one flat sequence of characters, newlines included.   *)
(***************************************************************************)
EXTENDS Integers, Sequences, FiniteSets, TLC

\* ------------------------------------------------------------------------
\* Python str primitives
\* ------------------------------------------------------------------------

NL == "\n"
TAB == "\t"

\* str.isspace() of one character (the characters str.strip/str.split drop)
IsSpace(c) == c \in {" ", "\t", "\n", "\r"}

\* s.strip() == ''
IsBlank(s) == \A i \in 1..Len(s) : IsSpace(s[i])

\* re.sub(a, b, s) for a one-character pattern a and a replacement string b
RECURSIVE ReSub(_, _, _)
ReSub(a, b, s) ==
    IF s = <<>> THEN <<>>
    ELSE (IF Head(s) = a THEN b ELSE <<Head(s)>>) \o ReSub(a, b, Tail(s))

\* `sub in s`
Contains(s, sub) ==
    \E i \in 0..(Len(s) - Len(sub)) :
        \A j \in 1..Len(sub) : s[i + j] = sub[j]

\* s.split(sep) for a one-character separator: always at least one piece,
\* empty pieces kept
RECURSIVE SplitSep(_, _)
SplitSep(s, sep) ==
    IF \A i \in 1..Len(s) : s[i] # sep THEN <<s>>
    ELSE LET k == CHOOSE i \in 1..Len(s) :
                      s[i] = sep /\ \A j \in 1..(i - 1) : s[j] # sep
         IN  <<SubSeq(s, 1, k - 1)>> \o SplitSep(SubSeq(s, k + 1, Len(s)), sep)

\* s.split(): runs of whitespace separate, no empty token
RECURSIVE SplitWhitespace(_)
SplitWhitespace(s) ==
    IF IsBlank(s) THEN <<>>
    ELSE LET b == CHOOSE i \in 1..Len(s) :
                      ~IsSpace(s[i]) /\ \A j \in 1..(i - 1) : IsSpace(s[j])
             e == CHOOSE i \in b..Len(s) :
                      /\ \A j \in b..i : ~IsSpace(s[j])
                      /\ (i = Len(s) \/ IsSpace(s[i + 1]))
         IN  <<SubSeq(s, b, e)>> \o SplitWhitespace(SubSeq(s, e + 1, Len(s)))

\* `for line in fp`: the lines of a text, each with its terminating newline,
\* the last one without when the text does not end in a newline
FileLines(text) ==
    LET pieces == SplitSep(text, NL)
        n == Len(pieces)
        full == [i \in 1..(n - 1) |-> pieces[i] \o <<NL>>]
    IN  IF pieces[n] = <<>> THEN full ELSE full \o <<pieces[n]>>

\* the elements of a sequence, as set(list) builds it
Range(seq) == {seq[i] : i \in 1..Len(seq)}

\* ''.join(seq)
RECURSIVE Join(_)
Join(seq) == IF seq = <<>> THEN <<>> ELSE Head(seq) \o Join(Tail(seq))

\* every order in which iterating a Python set can yield its elements
Orderings(S) ==
    {f \in [1..Cardinality(S) -> S] : \A x \in S : \E i \in DOMAIN f : f[i] = x}

\* ------------------------------------------------------------------------
\* The markers of data/RESOURCES.txt
\* ------------------------------------------------------------------------

INSTANCE_IDS_MARKER ==
    <<"[", "i", "n", "s", "t", "a", "n", "c", "e", " ", "i", "d", "s", "]">>
INSTANCE_TAG_KEYS_MARKER ==
    <<"[", "i", "n", "s", "t", "a", "n", "c", "e", " ", "t", "a", "g", " ",
      "k", "e", "y", "s", "]">>
INSTANCE_TAG_VALUES_MARKER ==
    <<"[", "i", "n", "s", "t", "a", "n", "c", "e", " ", "t", "a", "g", " ",
      "v", "a", "l", "u", "e", "s", "]">>
BUCKET_NAMES_MARKER ==
    <<"[", "b", "u", "c", "k", "e", "t", " ", "n", "a", "m", "e", "s", "]">>

Markers == {INSTANCE_IDS_MARKER, INSTANCE_TAG_KEYS_MARKER,
            INSTANCE_TAG_VALUES_MARKER, BUCKET_NAMES_MARKER}

\* ResType
ResTypes == {"INSTANCE_IDS", "INSTANCE_TAG_KEYS", "INSTANCE_TAG_VALUES",
             "BUCKET_NAMES"}

\* ------------------------------------------------------------------------
\* refresh_resources_from_file: the scan of the file's lines
\* ------------------------------------------------------------------------

\* mutant: the cursor starts at the last section instead of the first
ScanStart_BucketCursor ==
    [res_type |-> "BUCKET_NAMES",
     instance_ids |-> <<>>,
     instance_tag_keys_list |-> <<>>,
     instance_tag_values_list |-> <<>>,
     bucket_names |-> <<>>]

\* the scan's locals and the two lists it appends to, after `with open`
ScanStart ==
    [res_type |-> "INSTANCE_IDS",
     instance_ids |-> <<>>,
     instance_tag_keys_list |-> <<>>,
     instance_tag_values_list |-> <<>>,
     bucket_names |-> <<>>]

\* mutant: the entry kept is the last whitespace-delimited token of the line
ScanLine_LastToken(st, raw) ==
    LET line == ReSub(NL, <<>>, raw)
        tokens == SplitWhitespace(line)
        entry == IF tokens = <<>> THEN line ELSE tokens[Len(tokens)]
    IN
    IF IsBlank(line) THEN st
    ELSE IF Contains(line, INSTANCE_IDS_MARKER)
        THEN [st EXCEPT !.res_type = "INSTANCE_IDS"]
    ELSE IF Contains(line, INSTANCE_TAG_KEYS_MARKER)
        THEN [st EXCEPT !.res_type = "INSTANCE_TAG_KEYS"]
    ELSE IF Contains(line, INSTANCE_TAG_VALUES_MARKER)
        THEN [st EXCEPT !.res_type = "INSTANCE_TAG_VALUES"]
    ELSE IF Contains(line, BUCKET_NAMES_MARKER)
        THEN [st EXCEPT !.res_type = "BUCKET_NAMES"]
    ELSE IF st.res_type = "INSTANCE_IDS"
        THEN [st EXCEPT !.instance_ids = Append(@, entry)]
    ELSE IF st.res_type = "INSTANCE_TAG_KEYS"
        THEN [st EXCEPT !.instance_tag_keys_list = Append(@, entry)]
    ELSE IF st.res_type = "INSTANCE_TAG_VALUES"
        THEN [st EXCEPT !.instance_tag_values_list = Append(@, entry)]
    ELSE [st EXCEPT !.bucket_names = Append(@, entry)]

\* mutant: blank lines are kept as entries
ScanLine_KeepBlank(st, raw) ==
    LET line == ReSub(NL, <<>>, raw) IN
    IF Contains(line, INSTANCE_IDS_MARKER)
        THEN [st EXCEPT !.res_type = "INSTANCE_IDS"]
    ELSE IF Contains(line, INSTANCE_TAG_KEYS_MARKER)
        THEN [st EXCEPT !.res_type = "INSTANCE_TAG_KEYS"]
    ELSE IF Contains(line, INSTANCE_TAG_VALUES_MARKER)
        THEN [st EXCEPT !.res_type = "INSTANCE_TAG_VALUES"]
    ELSE IF Contains(line, BUCKET_NAMES_MARKER)
        THEN [st EXCEPT !.res_type = "BUCKET_NAMES"]
    ELSE IF st.res_type = "INSTANCE_IDS"
        THEN [st EXCEPT !.instance_ids = Append(@, line)]
    ELSE IF st.res_type = "INSTANCE_TAG_KEYS"
        THEN [st EXCEPT !.instance_tag_keys_list = Append(@, line)]
    ELSE IF st.res_type = "INSTANCE_TAG_VALUES"
        THEN [st EXCEPT !.instance_tag_values_list = Append(@, line)]
    ELSE [st EXCEPT !.bucket_names = Append(@, line)]

\* mutant: a marker line switches the cursor only when it is the marker alone
ScanLine_WholeLineMarker(st, raw) ==
    LET line == ReSub(NL, <<>>, raw) IN
    IF IsBlank(line) THEN st
    ELSE IF line = INSTANCE_IDS_MARKER
        THEN [st EXCEPT !.res_type = "INSTANCE_IDS"]
    ELSE IF line = INSTANCE_TAG_KEYS_MARKER
        THEN [st EXCEPT !.res_type = "INSTANCE_TAG_KEYS"]
    ELSE IF line = INSTANCE_TAG_VALUES_MARKER
        THEN [st EXCEPT !.res_type = "INSTANCE_TAG_VALUES"]
    ELSE IF line = BUCKET_NAMES_MARKER
        THEN [st EXCEPT !.res_type = "BUCKET_NAMES"]
    ELSE IF st.res_type = "INSTANCE_IDS"
        THEN [st EXCEPT !.instance_ids = Append(@, line)]
    ELSE IF st.res_type = "INSTANCE_TAG_KEYS"
        THEN [st EXCEPT !.instance_tag_keys_list = Append(@, line)]
    ELSE IF st.res_type = "INSTANCE_TAG_VALUES"
        THEN [st EXCEPT !.instance_tag_values_list = Append(@, line)]
    ELSE [st EXCEPT !.bucket_names = Append(@, line)]

\* one iteration of `for line in fp`
ScanLine(st, raw) ==
    LET line == ReSub(NL, <<>>, raw) IN
    IF IsBlank(line) THEN st
    ELSE IF Contains(line, INSTANCE_IDS_MARKER)
        THEN [st EXCEPT !.res_type = "INSTANCE_IDS"]
    ELSE IF Contains(line, INSTANCE_TAG_KEYS_MARKER)
        THEN [st EXCEPT !.res_type = "INSTANCE_TAG_KEYS"]
    ELSE IF Contains(line, INSTANCE_TAG_VALUES_MARKER)
        THEN [st EXCEPT !.res_type = "INSTANCE_TAG_VALUES"]
    ELSE IF Contains(line, BUCKET_NAMES_MARKER)
        THEN [st EXCEPT !.res_type = "BUCKET_NAMES"]
    ELSE IF st.res_type = "INSTANCE_IDS"
        THEN [st EXCEPT !.instance_ids = Append(@, line)]
    ELSE IF st.res_type = "INSTANCE_TAG_KEYS"
        THEN [st EXCEPT !.instance_tag_keys_list = Append(@, line)]
    ELSE IF st.res_type = "INSTANCE_TAG_VALUES"
        THEN [st EXCEPT !.instance_tag_values_list = Append(@, line)]
    ELSE [st EXCEPT !.bucket_names = Append(@, line)]

\* the first k iterations of the loop
RECURSIVE ScanLines(_, _)
ScanLines(lines, k) ==
    IF k = 0 THEN ScanStart
    ELSE ScanLine(ScanLines(lines, k - 1), lines[k])

\* the four collections when the scan ran to the end of the file
LoadFile(text) ==
    LET lines == FileLines(text)
        st == ScanLines(lines, Len(lines))
    IN  [instance_ids |-> st.instance_ids,
         instance_tag_keys |-> Range(st.instance_tag_keys_list),
         instance_tag_values |-> Range(st.instance_tag_values_list),
         bucket_names |-> st.bucket_names]

\* the numbers of lines a read that raises can have yielded before it
ReadFaultPoints(text) ==
    LET n == Len(FileLines(text)) IN 0..(IF n = 0 THEN 0 ELSE n - 1)

\* the four collections when reading raised after k lines: the two sets were
\* reset and their final assignment was not reached
LoadFilePartial(text, k) ==
    LET st == ScanLines(FileLines(text), k)
    IN  [instance_ids |-> st.instance_ids,
         instance_tag_keys |-> {},
         instance_tag_values |-> {},
         bucket_names |-> st.bucket_names]

\* ------------------------------------------------------------------------
\* save_resources_to_file: the fp.write calls, in order
\* ------------------------------------------------------------------------

WriteLines(entries) == [i \in 1..Len(entries) |-> entries[i] \o <<NL>>]

\* mutant: the marker of an empty collection is not written
SaveWrites_SkipEmpty(ids, keys, values, buckets) ==
    LET section(marker, entries) ==
            IF entries = <<>> THEN <<>>
            ELSE <<marker \o <<NL>>>> \o WriteLines(entries)
    IN  section(INSTANCE_IDS_MARKER, ids)
        \o section(INSTANCE_TAG_KEYS_MARKER, keys)
        \o section(INSTANCE_TAG_VALUES_MARKER, values)
        \o section(BUCKET_NAMES_MARKER, buckets)

\* keys and values are the orders in which the two sets are iterated
SaveWrites(ids, keys, values, buckets) ==
    <<INSTANCE_IDS_MARKER \o <<NL>>>> \o WriteLines(ids)
    \o <<INSTANCE_TAG_KEYS_MARKER \o <<NL>>>> \o WriteLines(keys)
    \o <<INSTANCE_TAG_VALUES_MARKER \o <<NL>>>> \o WriteLines(values)
    \o <<BUCKET_NAMES_MARKER \o <<NL>>>> \o WriteLines(buckets)

\* ------------------------------------------------------------------------
\* The provider queries: what each makes of the command's output
\* ------------------------------------------------------------------------

ParseInstanceIds(result) == SplitWhitespace(ReSub(NL, <<" ">>, result))

ParseInstanceTagKeys(result) == Range(SplitSep(result, TAB))

ParseInstanceTagValues(result) == Range(SplitSep(result, TAB))

\* mutant: the first blank line ends the scan
RECURSIVE BucketScan_AbortAtBlank(_, _)
BucketScan_AbortAtBlank(result_list, k) ==
    IF k = 0 THEN <<>>
    ELSE LET tokens == SplitWhitespace(result_list[k])
             sofar == BucketScan_AbortAtBlank(result_list, k - 1)
         IN  IF \E j \in 1..k : IsBlank(result_list[j]) THEN sofar
             ELSE Append(sofar, tokens[Len(tokens)])

RECURSIVE BucketScan(_, _)
BucketScan(result_list, k) ==
    IF k = 0 THEN <<>>
    ELSE LET tokens == SplitWhitespace(result_list[k])
             sofar == BucketScan(result_list, k - 1)
         IN  IF tokens = <<>> THEN sofar
             ELSE Append(sofar, tokens[Len(tokens)])

ParseBucketNames(output) ==
    LET result_list == SplitSep(output, NL)
    IN  BucketScan(result_list, Len(result_list))

\* ------------------------------------------------------------------------
\* Exceptions and the except clauses
\* ------------------------------------------------------------------------

\* isinstance(e, cls) for the exceptions modelled: all derive from Exception
IsInstance(e, cls) == cls = e \/ cls = "Exception"

\* what open / read / write on the cache file raise
CacheErrors == {"IOError"}

\* what subprocess.check_output raises: non-zero exit, or no process at all
QueryErrors == {"CalledProcessError", "OSError"}

\* refresh: `except IOError` around the load and around the save
RefreshCatches(e) == IsInstance(e, "IOError")

\* mutant: the queries catch subprocess.CalledProcessError only
QueryCatches_CalledProcessError(e) == IsInstance(e, "CalledProcessError")

\* query_*: `except Exception` around the command and the assignment
QueryCatches(e) == IsInstance(e, "Exception")

\* ------------------------------------------------------------------------
\* Bounds and input pools
\* ------------------------------------------------------------------------

\* number of refresh calls on one store
MaxCalls == 2

\* number of reads or writes of the cache file that raise after the file
\* was opened, over the life of one store
MaxStreamFaults == 1

s_i0 == <<"i", "-", "0">>
s_i1 == <<"i", "-", "1">>
s_i2 == <<"i", "-", "2">>
s_k == <<"k">>
s_v == <<"v">>
s_env == <<"e", "n", "v">>
s_prod == <<"p", "r", "o", "d">>
s_b_old == <<"b", "-", "o", "l", "d">>
s_b_new == <<"b", "-", "n", "e", "w">>

\* outputs of the four provider commands
InstanceIdsOutputs == {s_i1 \o <<NL>> \o s_i2 \o <<NL>>}
TagKeysOutputs == {s_env \o <<NL>>}
TagValuesOutputs == {s_prod \o <<NL>>}
BucketNamesOutputs == {<<"1", " ">> \o s_b_new \o <<NL>>}

\* a cache file as an earlier run left it
ValidCacheText ==
    Join(SaveWrites(<<s_i0>>, <<s_k>>, <<s_v>>, <<s_b_old>>))

\* a cache file with lines before the first marker, a blank line and
\* markers missing
OddCacheText ==
    s_i0 \o <<NL, NL>> \o BUCKET_NAMES_MARKER \o <<NL>> \o s_b_old \o <<NL>>

AbsentFile == [exists |-> FALSE, text |-> <<>>]
File(text) == [exists |-> TRUE, text |-> text]

InitialCaches == {AbsentFile, File(ValidCacheText), File(OddCacheText)}

Queries == {"query_instance_ids", "query_instance_tag_keys",
            "query_instance_tag_values", "query_bucket_names"}

NotRun == [status |-> "none", output |-> <<>>]
Failed == [status |-> "failed", output |-> <<>>]
Returned(output) == [status |-> "ok", output |-> output]

NotLoaded == [called |-> FALSE, opened |-> FALSE, complete |-> FALSE]

\* ------------------------------------------------------------------------
\* State
\* ------------------------------------------------------------------------

VARIABLES
    instance_ids,            \* self.instance_ids: list of str
    instance_tag_keys,       \* self.instance_tag_keys: set of str
    instance_tag_values,     \* self.instance_tag_values: set of str
    bucket_names,            \* self.bucket_names: list of str
    refresh_instance_ids,    \* the three flags given to __init__
    refresh_instance_tags,
    refresh_bucket_names,
    cache,                   \* data/RESOURCES.txt: [exists, text]
    pc,                      \* where refresh stands
    force_refresh,           \* refresh's argument, reassigned at line 87
    force_arg,               \* refresh's argument as the caller gave it
    calls,                   \* the methods refresh has called so far, in order
    results,                 \* what each provider command did in this call
    loaded,                  \* what refresh_resources_from_file did in this call
    saved,                   \* what save_resources_to_file did in this call
    before,                  \* the four collections when refresh was called
    cache0,                  \* the cache file when refresh was called
    ncalls,                  \* refresh calls made on this store
    faults                   \* reads and writes that raised so far

vars == <<instance_ids, instance_tag_keys, instance_tag_values, bucket_names,
          refresh_instance_ids, refresh_instance_tags, refresh_bucket_names,
          cache, pc, force_refresh, force_arg, calls, results, loaded, saved,
          before, cache0, ncalls, faults>>

flags == <<refresh_instance_ids, refresh_instance_tags, refresh_bucket_names>>
history == <<force_arg, results, loaded, saved, before, cache0, ncalls,
            faults>>

\* the in-memory ResourceSet
Mem ==
    [instance_ids |-> instance_ids,
     instance_tag_keys |-> instance_tag_keys,
     instance_tag_values |-> instance_tag_values,
     bucket_names |-> bucket_names]

SetMem(m) ==
    /\ instance_ids' = m.instance_ids
    /\ instance_tag_keys' = m.instance_tag_keys
    /\ instance_tag_values' = m.instance_tag_values
    /\ bucket_names' = m.bucket_names

\* __init__
Init ==
    /\ instance_ids = <<>>
    /\ instance_tag_keys = {}
    /\ instance_tag_values = {}
    /\ bucket_names = <<>>
    /\ refresh_instance_ids \in BOOLEAN
    /\ refresh_instance_tags \in BOOLEAN
    /\ refresh_bucket_names \in BOOLEAN
    /\ cache \in InitialCaches
    /\ pc = "idle"
    /\ force_refresh = FALSE
    /\ force_arg = FALSE
    /\ calls = <<>>
    /\ results = [q \in Queries |-> NotRun]
    /\ loaded = NotLoaded
    /\ saved = "none"
    /\ before = Mem
    /\ cache0 = cache
    /\ ncalls = 0
    /\ faults = 0

\* ------------------------------------------------------------------------
\* refresh
\* ------------------------------------------------------------------------

\* mutant: the live queries run after a cache hit too
AfterLoad_AlwaysLive(fr) == "instance_ids"

\* mutant: a cache hit returns without saving
AfterLoad_NoSaveOnHit(fr) == IF fr THEN "instance_ids" ELSE "done"

\* line 88: `if force_refresh:` chooses the live queries or goes to the save
AfterLoad(fr) == IF fr THEN "instance_ids" ELSE "save"

\* line 81: `if not force_refresh:` chooses the cache load
Entry(fr) == IF ~fr THEN "load" ELSE AfterLoad(fr)

\* refresh(force_refresh) is called
Refresh(force) ==
    /\ pc \in {"idle", "done"}
    /\ ncalls < MaxCalls
    /\ force_refresh' = force
    /\ force_arg' = force
    /\ pc' = Entry(force)
    /\ calls' = <<>>
    /\ results' = [q \in Queries |-> NotRun]
    /\ loaded' = NotLoaded
    /\ saved' = "none"
    /\ before' = Mem
    /\ cache0' = cache
    /\ ncalls' = ncalls + 1
    /\ UNCHANGED <<instance_ids, instance_tag_keys, instance_tag_values,
                   bucket_names, flags, cache, faults>>

\* mutant: the except clause does not set force_refresh
LoadRaised_NoEscalation(e) ==
    IF RefreshCatches(e)
    THEN /\ force_refresh' = force_refresh
         /\ pc' = AfterLoad(force_refresh)
    ELSE /\ force_refresh' = force_refresh
         /\ pc' = "raised"

\* lines 82-87, refresh_resources_from_file raising e: the except clause
LoadRaised(e) ==
    IF RefreshCatches(e)
    THEN /\ force_refresh' = TRUE
         /\ pc' = AfterLoad(TRUE)
    ELSE /\ force_refresh' = force_refresh
         /\ pc' = "raised"

\* mutant: the collections are reset before open(file_path) raises
LoadOpenFails_ResetFirst ==
    /\ pc = "load"
    /\ \E e \in CacheErrors : LoadRaised(e)
    /\ calls' = Append(calls, "refresh_resources_from_file")
    /\ loaded' = [called |-> TRUE, opened |-> FALSE, complete |-> FALSE]
    /\ instance_ids' = <<>>
    /\ instance_tag_keys' = {}
    /\ instance_tag_values' = {}
    /\ bucket_names' = <<>>
    /\ UNCHANGED <<flags, cache, results, saved, force_arg, before, cache0,
                   ncalls, faults>>

\* refresh_resources_from_file: open(file_path) raises, nothing was assigned
LoadOpenFails ==
    /\ pc = "load"
    /\ \E e \in CacheErrors : LoadRaised(e)
    /\ calls' = Append(calls, "refresh_resources_from_file")
    /\ loaded' = [called |-> TRUE, opened |-> FALSE, complete |-> FALSE]
    /\ UNCHANGED <<instance_ids, instance_tag_keys, instance_tag_values,
                   bucket_names, flags, cache, results, saved, force_arg,
                   before, cache0, ncalls, faults>>

\* refresh_resources_from_file: the file opens, k lines are read and the
\* next read raises
LoadReadFails ==
    /\ pc = "load"
    /\ cache.exists
    /\ faults < MaxStreamFaults
    /\ \E k \in ReadFaultPoints(cache.text) :
          SetMem(LoadFilePartial(cache.text, k))
    /\ loaded' = [called |-> TRUE, opened |-> TRUE, complete |-> FALSE]
    /\ \E e \in CacheErrors : LoadRaised(e)
    /\ calls' = Append(calls, "refresh_resources_from_file")
    /\ faults' = faults + 1
    /\ UNCHANGED <<flags, cache, results, saved, force_arg, before, cache0,
                   ncalls>>

\* refresh_resources_from_file returns
LoadOk ==
    /\ pc = "load"
    /\ cache.exists
    /\ SetMem(LoadFile(cache.text))
    /\ loaded' = [called |-> TRUE, opened |-> TRUE, complete |-> TRUE]
    /\ pc' = AfterLoad(force_refresh)
    /\ calls' = Append(calls, "refresh_resources_from_file")
    /\ UNCHANGED <<force_refresh, flags, cache, results, saved, force_arg,
                   before, cache0, ncalls, faults>>

\* ------------------------------------------------------------------------
\* The four queries
\* ------------------------------------------------------------------------

\* what subprocess.check_output can do: return one of the outputs, or raise
Outcomes(outputs) == {Returned(o) : o \in outputs} \cup {Failed}

\* the value of each collection after its query, from its value before
query_instance_ids(old, r) ==
    IF r.status = "ok" THEN ParseInstanceIds(r.output) ELSE old

query_instance_tag_keys(old, r) ==
    IF r.status = "ok" THEN ParseInstanceTagKeys(r.output) ELSE old

query_instance_tag_values(old, r) ==
    IF r.status = "ok" THEN ParseInstanceTagValues(r.output) ELSE old

\* mutant: the list is reset before the command runs
query_bucket_names_ResetFirst(old, r) ==
    IF r.status = "ok" THEN ParseBucketNames(r.output) ELSE <<>>

\* mutant: the names are appended to the list the store held
query_bucket_names_Merge(old, r) ==
    IF r.status = "ok" THEN old \o ParseBucketNames(r.output) ELSE old

query_bucket_names(old, r) ==
    IF r.status = "ok" THEN ParseBucketNames(r.output) ELSE old

\* mutant: a failed query ends the live refresh
QueryEnds_Abort(r, next) ==
    IF r.status = "ok" THEN pc' = next ELSE pc' = "save"

\* where refresh goes after a query: on, or out with the exception when the
\* query's except clause does not catch it
QueryEnds(r, next) ==
    IF r.status = "ok" THEN pc' = next
    ELSE \E e \in QueryErrors :
            pc' = IF QueryCatches(e) THEN next ELSE "raised"

\* mutant: the bucket names are queried whatever their flag
GateBucketNames_Always == TRUE

\* mutant: the tag queries are gated by the instance ids flag
GateInstanceTags_IdsFlag == refresh_instance_ids

\* lines 90, 93 and 97: the flag that lets each group of queries run
GateInstanceIds == refresh_instance_ids

GateInstanceTags == refresh_instance_tags

GateBucketNames == refresh_bucket_names

\* lines 90-92
QueryInstanceIds ==
    /\ pc = "instance_ids"
    /\ GateInstanceIds
    /\ \E r \in Outcomes(InstanceIdsOutputs) :
          /\ instance_ids' = query_instance_ids(instance_ids, r)
          /\ results' = [results EXCEPT !["query_instance_ids"] = r]
          /\ QueryEnds(r, "instance_tag_keys")
    /\ calls' = Append(calls, "query_instance_ids")
    /\ UNCHANGED <<instance_tag_keys, instance_tag_values, bucket_names,
                   flags, cache, force_refresh, loaded, saved, force_arg,
                   before, cache0, ncalls, faults>>

SkipInstanceIds ==
    /\ pc = "instance_ids"
    /\ ~GateInstanceIds
    /\ pc' = "instance_tag_keys"
    /\ UNCHANGED <<instance_ids, instance_tag_keys, instance_tag_values,
                   bucket_names, flags, cache, force_refresh, calls, history>>

\* lines 93-95
QueryInstanceTagKeys ==
    /\ pc = "instance_tag_keys"
    /\ GateInstanceTags
    /\ \E r \in Outcomes(TagKeysOutputs) :
          /\ instance_tag_keys' =
                 query_instance_tag_keys(instance_tag_keys, r)
          /\ results' = [results EXCEPT !["query_instance_tag_keys"] = r]
          /\ QueryEnds(r, "instance_tag_values")
    /\ calls' = Append(calls, "query_instance_tag_keys")
    /\ UNCHANGED <<instance_ids, instance_tag_values, bucket_names,
                   flags, cache, force_refresh, loaded, saved, force_arg,
                   before, cache0, ncalls, faults>>

\* line 96
QueryInstanceTagValues ==
    /\ pc = "instance_tag_values"
    /\ \E r \in Outcomes(TagValuesOutputs) :
          /\ instance_tag_values' =
                 query_instance_tag_values(instance_tag_values, r)
          /\ results' = [results EXCEPT !["query_instance_tag_values"] = r]
          /\ QueryEnds(r, "bucket_names")
    /\ calls' = Append(calls, "query_instance_tag_values")
    /\ UNCHANGED <<instance_ids, instance_tag_keys, bucket_names,
                   flags, cache, force_refresh, loaded, saved, force_arg,
                   before, cache0, ncalls, faults>>

SkipInstanceTags ==
    /\ pc = "instance_tag_keys"
    /\ ~GateInstanceTags
    /\ pc' = "bucket_names"
    /\ UNCHANGED <<instance_ids, instance_tag_keys, instance_tag_values,
                   bucket_names, flags, cache, force_refresh, calls, history>>

\* lines 97-99
QueryBucketNames ==
    /\ pc = "bucket_names"
    /\ GateBucketNames
    /\ \E r \in Outcomes(BucketNamesOutputs) :
          /\ bucket_names' = query_bucket_names(bucket_names, r)
          /\ results' = [results EXCEPT !["query_bucket_names"] = r]
          /\ QueryEnds(r, "save")
    /\ calls' = Append(calls, "query_bucket_names")
    /\ UNCHANGED <<instance_ids, instance_tag_keys, instance_tag_values,
                   flags, cache, force_refresh, loaded, saved, force_arg,
                   before, cache0, ncalls, faults>>

SkipBucketNames ==
    /\ pc = "bucket_names"
    /\ ~GateBucketNames
    /\ pc' = "save"
    /\ UNCHANGED <<instance_ids, instance_tag_keys, instance_tag_values,
                   bucket_names, flags, cache, force_refresh, calls, history>>

\* ------------------------------------------------------------------------
\* lines 101-104: the save
\* ------------------------------------------------------------------------

\* save_resources_to_file raising e: the except clause
SaveRaised(e) == pc' = IF RefreshCatches(e) THEN "done" ELSE "raised"

\* mutant: a store with no entry at all is saved as an empty file
SaveTexts_EmptyFileWhenEmpty(m) ==
    IF /\ m.instance_ids = <<>> /\ m.bucket_names = <<>>
       /\ m.instance_tag_keys = {} /\ m.instance_tag_values = {}
    THEN {<<>>}
    ELSE {Join(SaveWrites(m.instance_ids, ko, vo, m.bucket_names)) :
             ko \in Orderings(m.instance_tag_keys),
             vo \in Orderings(m.instance_tag_values)}

\* the texts a complete save can write, one per iteration order of the sets
SaveTexts(m) ==
    {Join(SaveWrites(m.instance_ids, ko, vo, m.bucket_names)) :
        ko \in Orderings(m.instance_tag_keys),
        vo \in Orderings(m.instance_tag_values)}

\* the texts left by a save whose j+1st write raises: open() truncated the
\* file and j writes went through
SavePrefixes(m) ==
    UNION {{Join(SubSeq(w, 1, j)) : j \in 0..(Len(w) - 1)} :
        w \in {SaveWrites(m.instance_ids, ko, vo, m.bucket_names) :
                  ko \in Orderings(m.instance_tag_keys),
                  vo \in Orderings(m.instance_tag_values)}}

SaveOk ==
    /\ pc = "save"
    /\ \E text \in SaveTexts(Mem) : cache' = File(text)
    /\ saved' = "ok"
    /\ pc' = "done"
    /\ calls' = Append(calls, "save_resources_to_file")
    /\ UNCHANGED <<instance_ids, instance_tag_keys, instance_tag_values,
                   bucket_names, flags, force_refresh, results, loaded,
                   force_arg, before, cache0, ncalls, faults>>

\* open(file_path, 'wt') raises: the file is as it was
SaveOpenFails ==
    /\ pc = "save"
    /\ \E e \in CacheErrors : SaveRaised(e)
    /\ saved' = "failed"
    /\ calls' = Append(calls, "save_resources_to_file")
    /\ UNCHANGED <<instance_ids, instance_tag_keys, instance_tag_values,
                   bucket_names, flags, cache, force_refresh, results, loaded,
                   force_arg, before, cache0, ncalls, faults>>

\* a write raises
SaveWriteFails ==
    /\ pc = "save"
    /\ faults < MaxStreamFaults
    /\ faults' = faults + 1
    /\ \E text \in SavePrefixes(Mem) : cache' = File(text)
    /\ \E e \in CacheErrors : SaveRaised(e)
    /\ saved' = "failed"
    /\ calls' = Append(calls, "save_resources_to_file")
    /\ UNCHANGED <<instance_ids, instance_tag_keys, instance_tag_values,
                   bucket_names, flags, force_refresh, results, loaded,
                   force_arg, before, cache0, ncalls>>

\* ------------------------------------------------------------------------
\* Specification
\* ------------------------------------------------------------------------

Next ==
    \/ \E force \in BOOLEAN : Refresh(force)
    \/ LoadOpenFails
    \/ LoadReadFails
    \/ LoadOk
    \/ QueryInstanceIds
    \/ SkipInstanceIds
    \/ QueryInstanceTagKeys
    \/ QueryInstanceTagValues
    \/ SkipInstanceTags
    \/ QueryBucketNames
    \/ SkipBucketNames
    \/ SaveOk
    \/ SaveOpenFails
    \/ SaveWriteFails

Spec == Init /\ [][Next]_vars

\* ------------------------------------------------------------------------
\* Vocabulary of the properties
\* ------------------------------------------------------------------------

Invoked(name) == \E i \in 1..Len(calls) : calls[i] = name

\* the queries refresh has called so far, in order
QueryCalls == SelectSeq(calls, LAMBDA c : c \in Queries)

\* what the output each query got in this call parses to
Queried ==
    [instance_ids |-> ParseInstanceIds(results["query_instance_ids"].output),
     instance_tag_keys |->
         ParseInstanceTagKeys(results["query_instance_tag_keys"].output),
     instance_tag_values |->
         ParseInstanceTagValues(results["query_instance_tag_values"].output),
     bucket_names |-> ParseBucketNames(results["query_bucket_names"].output)]

\* what the output query q got in this call parses to
QueriedBy(q) ==
    CASE q = "query_instance_ids" ->
             ParseInstanceIds(results[q].output)
      [] q = "query_instance_tag_keys" ->
             ParseInstanceTagKeys(results[q].output)
      [] q = "query_instance_tag_values" ->
             ParseInstanceTagValues(results[q].output)
      [] q = "query_bucket_names" ->
             ParseBucketNames(results[q].output)

\* the collection query q assigns, as it is now
HeldFor(q) ==
    CASE q = "query_instance_ids" -> instance_ids
      [] q = "query_instance_tag_keys" -> instance_tag_keys
      [] q = "query_instance_tag_values" -> instance_tag_values
      [] q = "query_bucket_names" -> bucket_names

\* the collection each query assigns
CategoryOf(q) ==
    CASE q = "query_instance_ids" -> "instance_ids"
      [] q = "query_instance_tag_keys" -> "instance_tag_keys"
      [] q = "query_instance_tag_values" -> "instance_tag_values"
      [] q = "query_bucket_names" -> "bucket_names"

\* the flag that governs each query
FlagOf(q) ==
    CASE q = "query_instance_ids" -> refresh_instance_ids
      [] q = "query_instance_tag_keys" -> refresh_instance_tags
      [] q = "query_instance_tag_values" -> refresh_instance_tags
      [] q = "query_bucket_names" -> refresh_bucket_names

\* the fixed order of the queries
Rank(q) ==
    CASE q = "query_instance_ids" -> 1
      [] q = "query_instance_tag_keys" -> 2
      [] q = "query_instance_tag_values" -> 3
      [] q = "query_bucket_names" -> 4

\* one section of the cache file: the marker line, then one line per entry
Section(marker, entries) ==
    marker \o <<NL>> \o Join([i \in 1..Len(entries) |-> entries[i] \o <<NL>>])

\* the texts that hold ResourceSet m as four sections in the fixed order
FourSections(m) ==
    {Section(INSTANCE_IDS_MARKER, m.instance_ids)
        \o Section(INSTANCE_TAG_KEYS_MARKER, ko)
        \o Section(INSTANCE_TAG_VALUES_MARKER, vo)
        \o Section(BUCKET_NAMES_MARKER, m.bucket_names) :
     ko \in Orderings(m.instance_tag_keys),
     vo \in Orderings(m.instance_tag_values)}

\* ------------------------------------------------------------------------
\* C2
\* ------------------------------------------------------------------------

\* C2: once the cache load of a refresh(force_refresh=False) call has
\* returned, no provider query is invoked in that call, whatever the flags,
\* and the four collections are, up to the end of the call, exactly what the
\* file parses to.
C2_CacheHitSkipsQueries ==
    loaded.complete =>
        /\ \A q \in Queries : ~Invoked(q) /\ results[q] = NotRun
        /\ Mem = LoadFile(cache0.text)

C2_Witness ==
    /\ pc = "done"
    /\ loaded.complete
    /\ refresh_instance_ids /\ refresh_instance_tags /\ refresh_bucket_names
    /\ instance_ids = <<s_i0>>
    /\ bucket_names = <<s_b_old>>

\* ------------------------------------------------------------------------
\* C3
\* ------------------------------------------------------------------------

\* C3: at the end of a live refresh (forced, or after a cache miss), every
\* enabled query was invoked whichever of them failed, every query that
\* returned has its collection equal to what its output parses to, the save
\* was attempted, and a save that went through wrote the four marker lines.
C3_PartialFailureIsolation ==
    (pc = "done" /\ force_refresh) =>
        /\ \A q \in Queries : FlagOf(q) => results[q].status # "none"
        /\ \A q \in Queries :
              results[q].status = "ok" =>
                  HeldFor(q) = QueriedBy(q)
        /\ Invoked("save_resources_to_file")
        /\ saved = "ok" =>
              LET lines == Range(FileLines(cache.text))
              IN  \A m \in Markers : m \o <<NL>> \in lines

\* the tag-keys query fails, the ids and buckets queries return
C3_Witness ==
    /\ pc = "done"
    /\ force_arg
    /\ results["query_instance_tag_keys"].status = "failed"
    /\ results["query_instance_ids"].status = "ok"
    /\ results["query_bucket_names"].status = "ok"
    /\ instance_ids = <<s_i1, s_i2>>
    /\ bucket_names = <<s_b_new>>
    /\ saved = "ok"

\* ------------------------------------------------------------------------
\* C4
\* ------------------------------------------------------------------------

\* C4: a step in which a provider command fails leaves all four collections
\* as they were.
C4_FailedQueryChangesNothing ==
    [][\A q \in Queries :
          (results[q].status # "failed" /\ results'[q].status = "failed")
              => Mem' = Mem]_vars

\* each of the four queries has failed over a collection that held entries
C4_Witness ==
    /\ \A q \in Queries : results[q].status = "failed"
    /\ instance_ids # <<>>
    /\ instance_tag_keys # {}
    /\ instance_tag_values # {}
    /\ bucket_names # <<>>

\* ------------------------------------------------------------------------
\* C5
\* ------------------------------------------------------------------------

\* C5: in a refresh(force_refresh=True) call the cache file is never read,
\* and every collection whose query returned is what the output parses to,
\* not that merged with what it held.
C5_ForceRefreshBypass ==
    force_arg =>
        /\ ~loaded.called
        /\ ~Invoked("refresh_resources_from_file")
        /\ \A q \in Queries :
              (pc = "done" /\ results[q].status = "ok") =>
                  HeldFor(q) = QueriedBy(q)

\* the cache and the store hold b-old, the provider returns b-new
C5_Witness ==
    /\ pc = "done"
    /\ force_arg
    /\ cache0 = File(ValidCacheText)
    /\ before.bucket_names = <<s_b_old>>
    /\ results["query_bucket_names"].status = "ok"
    /\ bucket_names = <<s_b_new>>

\* ------------------------------------------------------------------------
\* C6
\* ------------------------------------------------------------------------

C7_SaveLastNeverRollsBack ==
    [][(pc # "done" /\ pc' = "done") =>
          /\ ~Invoked("save_resources_to_file")
          /\ calls' = Append(calls, "save_resources_to_file")
          /\ saved' \in {"ok", "failed"}
          /\ Mem' = Mem]_vars

\* the save fails at the end of a live refresh that queried the ids
C7_Witness ==
    /\ pc = "done"
    /\ saved = "failed"
    /\ results["query_instance_ids"].status = "ok"
    /\ instance_ids = <<s_i1, s_i2>>
    /\ calls[Len(calls)] = "save_resources_to_file"

\* ------------------------------------------------------------------------
\* C8
\* ------------------------------------------------------------------------

\* collection c as it is now
Held(c) ==
    CASE c = "instance_ids" -> instance_ids
      [] c = "instance_tag_keys" -> instance_tag_keys
      [] c = "instance_tag_values" -> instance_tag_values
      [] c = "bucket_names" -> bucket_names

\* the value the load of this call left collection c at, when there is one:
\* the parse of the file, or of the lines read before the read raised
LoadLeft(c, v) ==
    IF loaded.complete THEN v = LoadFile(cache0.text)[c]
    ELSE \E k \in ReadFaultPoints(cache0.text) :
            v = LoadFilePartial(cache0.text, k)[c]

\* the flag that governs each collection
Disabled(c) ==
    CASE c = "instance_ids" -> ~refresh_instance_ids
      [] c = "instance_tag_keys" -> ~refresh_instance_tags
      [] c = "instance_tag_values" -> ~refresh_instance_tags
      [] c = "bucket_names" -> ~refresh_bucket_names

Categories == {"instance_ids", "instance_tag_keys", "instance_tag_values",
               "bucket_names"}

Empty(c) == IF c \in {"instance_ids", "bucket_names"} THEN <<>> ELSE {}

NotQueried(c) ==
    \A q \in Queries : CategoryOf(q) = c => results[q] = NotRun /\ ~Invoked(q)

\* C8 as stated: at the end of a refresh call a disabled collection was not
\* queried and holds the value the load of that call left it at, or is empty
\* if no load occurred in that call.
C8_DisabledEmptyWithoutLoad ==
    pc = "done" =>
        \A c \in Categories : Disabled(c) =>
            /\ NotQueried(c)
            /\ IF loaded.opened THEN LoadLeft(c, Held(c))
               ELSE IF loaded.called THEN Held(c) = before[c]
               ELSE Held(c) = Empty(c)

\* C8 (amended): at the end of a refresh call a disabled collection was not
\* queried and holds the value the load of that call left it at, or, if the
\* file was not opened in that call (forced refresh, or open failed), the
\* value it had when refresh was called, which is empty on a store never
\* refreshed before.
C8_DisabledKeepsValue ==
    /\ pc = "done" =>
          \A c \in Categories : Disabled(c) =>
              /\ NotQueried(c)
              /\ IF loaded.opened THEN LoadLeft(c, Held(c))
                 ELSE Held(c) = before[c]
    /\ ncalls <= 1 => before = [c \in Categories |-> Empty(c)]

\* a forced refresh over a disabled collection that an earlier call filled
C8_Witness ==
    /\ pc = "done"
    /\ force_arg
    /\ ~refresh_bucket_names
    /\ refresh_instance_ids
    /\ bucket_names = <<s_b_old>>
    /\ instance_ids = <<s_i1, s_i2>>

\* ------------------------------------------------------------------------
\* C9
\* ------------------------------------------------------------------------

C10_QueryOrder ==
    LET qs == QueryCalls IN
    /\ \A i, j \in 1..Len(qs) : i < j => Rank(qs[i]) < Rank(qs[j])
    /\ \A i \in 1..Len(qs) : FlagOf(qs[i]) /\ force_refresh
    /\ \A i \in 1..Len(qs) :
          (qs[i] = "query_instance_tag_values") =>
              (i > 1 /\ qs[i - 1] = "query_instance_tag_keys")
    /\ \A q \in Queries : Invoked(q) <=> results[q].status # "none"

\* the four queries were invoked, in the fixed order
C10_Witness ==
    /\ pc = "done"
    /\ QueryCalls = <<"query_instance_ids", "query_instance_tag_keys",
                      "query_instance_tag_values", "query_bucket_names">>

\* ------------------------------------------------------------------------
\* save_resources_to_file then refresh_resources_from_file, called directly
\* on a store holding any ResourceSet over a pool of entries
\* ------------------------------------------------------------------------

\* longest list of instance ids of the pool
MaxListLen == 2

s_a_b == <<"a", " ", "b">>
s_blank == <<" ">>
s_x_marker == <<"x">> \o BUCKET_NAMES_MARKER
s_a_nl_b == <<"a", NL, "b">>

\* plain entries, a blank one, one that contains a marker, one with a newline
Entries == {s_i1, s_a_b, s_blank, s_x_marker, s_a_nl_b}

RECURSIVE ListsUpTo(_)
ListsUpTo(n) ==
    IF n = 0 THEN {<<>>}
    ELSE LET shorter == ListsUpTo(n - 1)
         IN  shorter \cup {Append(l, x) : l \in shorter, x \in Entries}

ResourceSets ==
    [instance_ids : ListsUpTo(MaxListLen),
     instance_tag_keys : SUBSET {s_i1, s_a_b, s_x_marker},
     instance_tag_values : SUBSET {s_a_b, s_blank},
     bucket_names : {<<>>} \cup {<<x>> : x \in Entries}]

InitRoundTrip ==
    /\ \E m \in ResourceSets :
          /\ instance_ids = m.instance_ids
          /\ instance_tag_keys = m.instance_tag_keys
          /\ instance_tag_values = m.instance_tag_values
          /\ bucket_names = m.bucket_names
    /\ refresh_instance_ids = TRUE
    /\ refresh_instance_tags = TRUE
    /\ refresh_bucket_names = TRUE
    /\ cache = AbsentFile
    /\ pc = "to_save"
    /\ force_refresh = FALSE
    /\ force_arg = FALSE
    /\ calls = <<>>
    /\ results = [q \in Queries |-> NotRun]
    /\ loaded = NotLoaded
    /\ saved = "none"
    /\ before = Mem
    /\ cache0 = cache
    /\ ncalls = 0
    /\ faults = 0

\* save_resources_to_file(file_path) returns
SaveResourcesToFile ==
    /\ pc = "to_save"
    /\ \E text \in SaveTexts(Mem) : cache' = File(text)
    /\ saved' = "ok"
    /\ before' = Mem
    /\ pc' = "to_load"
    /\ calls' = Append(calls, "save_resources_to_file")
    /\ UNCHANGED <<instance_ids, instance_tag_keys, instance_tag_values,
                   bucket_names, flags, force_refresh, force_arg, results,
                   loaded, cache0, ncalls, faults>>

\* refresh_resources_from_file(file_path) returns
RefreshResourcesFromFile ==
    /\ pc = "to_load"
    /\ cache.exists
    /\ SetMem(LoadFile(cache.text))
    /\ loaded' = [called |-> TRUE, opened |-> TRUE, complete |-> TRUE]
    /\ pc' = "loaded"
    /\ calls' = Append(calls, "refresh_resources_from_file")
    /\ UNCHANGED <<flags, cache, force_refresh, force_arg, results, saved,
                   before, cache0, ncalls, faults>>

NextRoundTrip == SaveResourcesToFile \/ RefreshResourcesFromFile

SpecRoundTrip == InitRoundTrip /\ [][NextRoundTrip]_vars

\* no entry of m holds a newline or another control character
Printable(m) ==
    LET ok(x) == \A i \in 1..Len(x) : x[i] \notin {NL, TAB, "\r"}
    IN  /\ \A i \in 1..Len(m.instance_ids) : ok(m.instance_ids[i])
        /\ \A i \in 1..Len(m.bucket_names) : ok(m.bucket_names[i])
        /\ \A x \in m.instance_tag_keys \cup m.instance_tag_values : ok(x)

\* no entry of m is blank or contains one of the four markers
Storable(m) ==
    LET ok(x) == ~IsBlank(x) /\ \A mk \in Markers : ~Contains(x, mk)
    IN  /\ \A i \in 1..Len(m.instance_ids) : ok(m.instance_ids[i])
        /\ \A i \in 1..Len(m.bucket_names) : ok(m.bucket_names[i])
        /\ \A x \in m.instance_tag_keys \cup m.instance_tag_values : ok(x)

\* ------------------------------------------------------------------------
\* C1
\* ------------------------------------------------------------------------

\* C1 as stated: for a ResourceSet of printable entries without newlines,
\* save_resources_to_file followed by refresh_resources_from_file yields an
\* equal ResourceSet.
C1_RoundTripPrintable ==
    (pc = "loaded" /\ Printable(before)) => Mem = before

\* C1 (amended): for a ResourceSet of printable entries without newlines,
\* none of them blank (empty or whitespace only) and none containing one of
\* the four marker strings, save_resources_to_file followed by
\* refresh_resources_from_file yields an equal ResourceSet: ids and bucket
\* names equal as sequences, tag keys and tag values equal as sets.
C1_RoundTripStorable ==
    (pc = "loaded" /\ Printable(before) /\ Storable(before)) => Mem = before

\* two ids in an order, two tag keys, a tag value and a bucket came back
C1_Witness ==
    /\ pc = "loaded"
    /\ before.instance_ids = <<s_a_b, s_i1>>
    /\ before.instance_tag_keys = {s_i1, s_a_b}
    /\ before.instance_tag_values = {s_a_b}
    /\ before.bucket_names = <<s_i1>>
    /\ Mem = before

\* ------------------------------------------------------------------------
\* refresh_resources_from_file called directly on any cache file made of a
\* few lines, on a store that holds anything; then called again, or followed
\* by save_resources_to_file and a reload
\* ------------------------------------------------------------------------

\* most lines of a cache file of the pool
MaxFileLines == 4

s_z == <<"z">>
s_padded == <<" ", "b", " ">>

\* marker lines (one with text around the marker), data lines (one padded
\* with spaces) and a whitespace-only line
FileLinePool ==
    {INSTANCE_IDS_MARKER, INSTANCE_TAG_KEYS_MARKER,
     INSTANCE_TAG_VALUES_MARKER, s_x_marker, s_i1, s_padded, s_blank}

RECURSIVE TextsUpTo(_)
TextsUpTo(n) ==
    IF n = 0 THEN {<<>>}
    ELSE LET shorter == TextsUpTo(n - 1)
         IN  shorter \cup
             {t \o l \o <<NL>> : t \in shorter, l \in FileLinePool}

\* files of up to MaxFileLines lines, the last line with or without its "\n"
CacheTexts ==
    LET whole == TextsUpTo(MaxFileLines)
    IN  whole \cup {SubSeq(t, 1, Len(t) - 1) : t \in whole \ {<<>>}}

EmptyMem ==
    [instance_ids |-> <<>>, instance_tag_keys |-> {},
     instance_tag_values |-> {}, bucket_names |-> <<>>]

\* entries that no file of the pool holds
StaleMem ==
    [instance_ids |-> <<s_z>>, instance_tag_keys |-> {s_z},
     instance_tag_values |-> {s_z}, bucket_names |-> <<s_z>>]

\* mutant: the collections are not reset before the scan appends to them
refresh_resources_from_file_NoReset(old, text) ==
    LET parsed == LoadFile(text)
    IN  [instance_ids |-> old.instance_ids \o parsed.instance_ids,
         instance_tag_keys |-> parsed.instance_tag_keys,
         instance_tag_values |-> parsed.instance_tag_values,
         bucket_names |-> old.bucket_names \o parsed.bucket_names]

\* the four collections after refresh_resources_from_file returns on a store
\* that held old: all four are assigned anew, the lists before the scan
\* and the sets after it
refresh_resources_from_file(old, text) == LoadFile(text)

InitLoad ==
    /\ \E m \in {EmptyMem, StaleMem} :
          /\ instance_ids = m.instance_ids
          /\ instance_tag_keys = m.instance_tag_keys
          /\ instance_tag_values = m.instance_tag_values
          /\ bucket_names = m.bucket_names
    /\ \E f \in BOOLEAN :
          /\ refresh_instance_ids = f
          /\ refresh_instance_tags = f
          /\ refresh_bucket_names = f
    /\ \E text \in CacheTexts : cache = File(text)
    /\ pc = "to_load_first"
    /\ force_refresh = FALSE
    /\ force_arg = FALSE
    /\ calls = <<>>
    /\ results = [q \in Queries |-> NotRun]
    /\ loaded = NotLoaded
    /\ saved = "none"
    /\ before = Mem
    /\ cache0 = cache
    /\ ncalls = 0
    /\ faults = 0

\* refresh_resources_from_file(file_path) returns, first call
LoadFirst ==
    /\ pc = "to_load_first"
    /\ cache.exists
    /\ SetMem(refresh_resources_from_file(Mem, cache.text))
    /\ loaded' = [called |-> TRUE, opened |-> TRUE, complete |-> TRUE]
    /\ pc' = "to_save"
    /\ calls' = Append(calls, "refresh_resources_from_file")
    /\ UNCHANGED <<flags, cache, force_refresh, force_arg, results, saved,
                   before, cache0, ncalls, faults>>

\* refresh_resources_from_file(file_path) returns, called again at once
LoadAgain ==
    /\ pc = "to_save"
    /\ calls = <<"refresh_resources_from_file">>
    /\ cache.exists
    /\ SetMem(refresh_resources_from_file(Mem, cache.text))
    /\ before' = Mem
    /\ pc' = "loaded_twice"
    /\ calls' = Append(calls, "refresh_resources_from_file")
    /\ UNCHANGED <<flags, cache, force_refresh, force_arg, results, saved,
                   loaded, cache0, ncalls, faults>>

NextLoad ==
    \/ LoadFirst
    \/ LoadAgain
    \/ SaveResourcesToFile
    \/ RefreshResourcesFromFile

SpecLoad == InitLoad /\ [][NextLoad]_vars

\* a line of the file without its terminating newline
Chomp(l) ==
    IF l # <<>> /\ l[Len(l)] = NL THEN SubSeq(l, 1, Len(l) - 1) ELSE l

\* the lines of a text, each without its newline
Bodies(text) ==
    LET lines == FileLines(text) IN [i \in 1..Len(lines) |-> Chomp(lines[i])]

\* the marker that opens the section of each collection
MarkerFor(c) ==
    CASE c = "instance_ids" -> INSTANCE_IDS_MARKER
      [] c = "instance_tag_keys" -> INSTANCE_TAG_KEYS_MARKER
      [] c = "instance_tag_values" -> INSTANCE_TAG_VALUES_MARKER
      [] c = "bucket_names" -> BUCKET_NAMES_MARKER

IsMarkerLine(b) == \E c \in Categories : Contains(b, MarkerFor(c))

IsDataLine(b) == ~IsBlank(b) /\ ~IsMarkerLine(b)

\* no line of the file holds the marker of collection c
MarkerMissing(bodies, c) ==
    \A i \in 1..Len(bodies) : ~Contains(bodies[i], MarkerFor(c))

\* the lines at the positions picked, in file order
Picked(bodies, pick(_)) ==
    LET positions == SelectSeq([i \in 1..Len(bodies) |-> i], pick)
    IN  [k \in 1..Len(positions) |-> bodies[positions[k]]]

\* the non-blank lines that come before the first marker line
BeforeFirstMarker(bodies) ==
    LET early(i) == /\ ~IsBlank(bodies[i])
                    /\ \A j \in 1..i : ~IsMarkerLine(bodies[j])
    IN  Picked(bodies, early)

IsPrefix(p, s) == Len(p) <= Len(s) /\ SubSeq(s, 1, Len(p)) = p

\* ------------------------------------------------------------------------
\* C11
\* ------------------------------------------------------------------------

\* C11 as stated: refresh_resources_from_file returns on a file from which any
\* of the four markers is missing, every collection whose marker is missing
\* ends empty, and the non-blank lines before the first marker are instance
\* ids.
C11_MissingMarkerEndsEmpty ==
    pc = "to_save" =>
        LET bodies == Bodies(cache0.text) IN
        /\ loaded.complete
        /\ \A c \in Categories :
              MarkerMissing(bodies, c) => Held(c) = Empty(c)
        /\ IsPrefix(BeforeFirstMarker(bodies), instance_ids)

\* C11 (amended): refresh_resources_from_file returns on a file from which
\* any of the four markers is missing; tag keys, tag values and bucket names
\* end empty when their marker is missing; the non-blank lines before the
\* first marker are the first instance ids, and they are all the instance ids
\* when the instance ids marker is missing.
C11_MarkerRobustness ==
    pc = "to_save" =>
        LET bodies == Bodies(cache0.text)
            early == BeforeFirstMarker(bodies)
        IN
        /\ loaded.complete
        /\ \A c \in Categories \ {"instance_ids"} :
              MarkerMissing(bodies, c) => Held(c) = Empty(c)
        /\ IsPrefix(early, instance_ids)
        /\ MarkerMissing(bodies, "instance_ids") => instance_ids = early

\* two lines before the only marker of the file, which is not the ids marker
C11_Witness ==
    /\ pc = "to_save"
    /\ before = StaleMem
    /\ MarkerMissing(Bodies(cache0.text), "instance_ids")
    /\ MarkerMissing(Bodies(cache0.text), "instance_tag_keys")
    /\ ~MarkerMissing(Bodies(cache0.text), "instance_tag_values")
    /\ MarkerMissing(Bodies(cache0.text), "bucket_names")
    /\ instance_ids = <<s_padded, s_i1>>
    /\ instance_tag_values = {s_i1}
    /\ instance_tag_keys = {}
    /\ bucket_names = <<>>

\* ------------------------------------------------------------------------
\* C12
\* ------------------------------------------------------------------------

\* every entry the store holds is a line of the text
AllFromFile(text) ==
    LET held == Range(instance_ids) \cup instance_tag_keys
                    \cup instance_tag_values \cup Range(bucket_names)
        bodies == Range(Bodies(text))
    IN  held \subseteq bodies

\* C12: whatever the store held and whatever its refresh flags are, once
\* refresh_resources_from_file has returned every entry of the four
\* collections comes from the file, and a second call on the unchanged file
\* leaves the ResourceSet the first call left.
C12_LoadReplaces ==
    /\ pc \in {"to_save", "loaded_twice"} => AllFromFile(cache0.text)
    /\ pc = "loaded_twice" => cache = cache0 /\ Mem = before

\* loaded twice with the flags off: two ids in file order and a bucket
C12_Witness ==
    /\ pc = "loaded_twice"
    /\ ~refresh_instance_ids /\ ~refresh_instance_tags /\ ~refresh_bucket_names
    /\ before.instance_ids = <<s_i1, s_padded>>
    /\ before.bucket_names = <<s_i1>>
    /\ Mem = before

\* ------------------------------------------------------------------------
\* C14
\* ------------------------------------------------------------------------

\* the collection whose marker line b holds
SectionOpened(b) == CHOOSE c \in Categories : Contains(b, MarkerFor(c))

\* the section line i of the file lies in: that of the nearest marker line
\* above it, instance ids when there is none
SectionAt(bodies, i) ==
    LET above == {j \in 1..(i - 1) : IsMarkerLine(bodies[j])}
    IN  IF above = {} THEN "instance_ids"
        ELSE SectionOpened(bodies[CHOOSE j \in above : \A k \in above : k <= j])

\* the data lines of the section of collection c, in file order
DataLinesOf(bodies, c) ==
    LET mine(i) == IsDataLine(bodies[i]) /\ SectionAt(bodies, i) = c
    IN  Picked(bodies, mine)

\* C14: after refresh_resources_from_file, with markers in any order and any
\* number of times, each list holds, in file order and without their newline,
\* the non-blank lines without a marker whose nearest marker line above is
\* the list's own (or that have no marker line above, for instance ids), and
\* each tag set holds the set of those lines; blank lines and lines that
\* contain a marker are in no collection.
C14_LoadCursor ==
    pc = "to_save" =>
        LET bodies == Bodies(cache0.text) IN
        /\ instance_ids = DataLinesOf(bodies, "instance_ids")
        /\ instance_tag_keys = Range(DataLinesOf(bodies, "instance_tag_keys"))
        /\ instance_tag_values =
              Range(DataLinesOf(bodies, "instance_tag_values"))
        /\ bucket_names = DataLinesOf(bodies, "bucket_names")

\* a bucket section, opened by a line with text around the marker, ahead of
\* a tag keys section that holds a padded line
C14_Witness ==
    /\ pc = "to_save"
    /\ cache0.text = s_x_marker \o <<NL>> \o s_i1 \o <<NL>>
                        \o INSTANCE_TAG_KEYS_MARKER \o <<NL>>
                        \o s_padded \o <<NL>>
    /\ bucket_names = <<s_i1>>
    /\ instance_tag_keys = {s_padded}
    /\ instance_ids = <<>>

\* ------------------------------------------------------------------------
\* query_bucket_names called directly, on a store that holds a bucket list or
\* none, with the listing command printing any few lines
\* ------------------------------------------------------------------------

\* most lines the listing command prints
MaxOutputLines == 3

s_dated == <<"1", " ">> \o s_b_new

\* a line of two columns, a line of one, a padded one, an empty line and a
\* whitespace-only line
ListingLinePool == {s_dated, s_i1, s_padded, <<>>, s_blank}

RECURSIVE ListingsUpTo(_)
ListingsUpTo(n) ==
    IF n = 0 THEN {<<>>}
    ELSE LET shorter == ListingsUpTo(n - 1)
         IN  shorter \cup
             {t \o l \o <<NL>> : t \in shorter, l \in ListingLinePool}

\* outputs of up to MaxOutputLines lines, the last with or without its "\n"
BucketListings ==
    LET whole == ListingsUpTo(MaxOutputLines)
    IN  whole \cup {SubSeq(t, 1, Len(t) - 1) : t \in whole \ {<<>>}}

InitBuckets ==
    /\ instance_ids = <<>>
    /\ instance_tag_keys = {}
    /\ instance_tag_values = {}
    /\ bucket_names \in {<<>>, <<s_b_old>>}
    /\ refresh_instance_ids = TRUE
    /\ refresh_instance_tags = TRUE
    /\ refresh_bucket_names = TRUE
    /\ cache = AbsentFile
    /\ pc = "to_list"
    /\ force_refresh = FALSE
    /\ force_arg = FALSE
    /\ calls = <<>>
    /\ results = [q \in Queries |-> NotRun]
    /\ loaded = NotLoaded
    /\ saved = "none"
    /\ before = Mem
    /\ cache0 = cache
    /\ ncalls = 0
    /\ faults = 0

\* query_bucket_names() returns
ListBuckets ==
    /\ pc = "to_list"
    /\ \E r \in Outcomes(BucketListings) :
          /\ bucket_names' = query_bucket_names(bucket_names, r)
          /\ results' = [results EXCEPT !["query_bucket_names"] = r]
    /\ pc' = "listed"
    /\ calls' = Append(calls, "query_bucket_names")
    /\ UNCHANGED <<instance_ids, instance_tag_keys, instance_tag_values,
                   flags, cache, force_refresh, loaded, saved, force_arg,
                   before, cache0, ncalls, faults>>

NextBuckets == ListBuckets

SpecBuckets == InitBuckets /\ [][NextBuckets]_vars

\* the last run of non-whitespace characters of a non-blank line
LastToken(line) ==
    LET e == CHOOSE i \in 1..Len(line) :
                 ~IsSpace(line[i]) /\ \A j \in (i + 1)..Len(line) : IsSpace(line[j])
        b == CHOOSE i \in 1..e :
                 /\ \A j \in i..e : ~IsSpace(line[j])
                 /\ (i = 1 \/ IsSpace(line[i - 1]))
    IN  SubSeq(line, b, e)

\* the last tokens of the non-blank lines of an output, in output order
LastTokens(output) ==
    LET pieces == SplitSep(output, NL)
        filled(i) == ~IsBlank(pieces[i])
        kept == Picked(pieces, filled)
    IN  [k \in 1..Len(kept) |-> LastToken(kept[k])]

\* ------------------------------------------------------------------------
\* C13
\* ------------------------------------------------------------------------

\* C13: when the listing command returned, bucket_names is the sequence of
\* the last whitespace-delimited tokens of the non-blank lines of its output,
\* in output order, whatever the list held before; no non-blank line gives
\* the empty list, and a blank line does not end the scan.
C13_BucketListRebuild ==
    (pc = "listed" /\ results["query_bucket_names"].status = "ok") =>
        /\ bucket_names = LastTokens(results["query_bucket_names"].output)
        /\ (\A l \in Range(SplitSep(results["query_bucket_names"].output, NL)) :
                IsBlank(l)) => bucket_names = <<>>

\* an old list replaced by the names on both sides of an empty line
C13_Witness ==
    /\ pc = "listed"
    /\ before.bucket_names = <<s_b_old>>
    /\ results["query_bucket_names"] =
          Returned(s_dated \o <<NL, NL>> \o s_padded \o <<NL>>)
    /\ bucket_names = <<s_b_new, <<"b">>>>

\* ------------------------------------------------------------------------
\* C15
\* ------------------------------------------------------------------------

\* C15: the file a successful save_resources_to_file leaves is the four
\* marker lines in the fixed order, each followed by the entries of its
\* collection, one write of entry and newline each, and nothing else; when
\* no entry holds a newline the file has four lines more than there are
\* entries, the markers sit right after the entries of the section before
\* (all four of them even when collections are empty), the ids and the bucket
\* names follow their markers in sequence order and the tag keys and tag
\* values follow theirs in some order.
C15_SaveFormat ==
    (pc \in {"to_load", "loaded"} /\ saved = "ok") =>
        LET lines == Bodies(cache.text)
            ni == Len(before.instance_ids)
            nk == Cardinality(before.instance_tag_keys)
            nv == Cardinality(before.instance_tag_values)
            nb == Len(before.bucket_names)
        IN  /\ cache.exists
            /\ cache.text \in FourSections(before)
            /\ Printable(before) =>
                  /\ Len(lines) = 4 + ni + nk + nv + nb
                  /\ cache.text[Len(cache.text)] = NL
                  /\ lines[1] = INSTANCE_IDS_MARKER
                  /\ SubSeq(lines, 2, 1 + ni) = before.instance_ids
                  /\ lines[2 + ni] = INSTANCE_TAG_KEYS_MARKER
                  /\ SubSeq(lines, 3 + ni, 2 + ni + nk)
                        \in Orderings(before.instance_tag_keys)
                  /\ lines[3 + ni + nk] = INSTANCE_TAG_VALUES_MARKER
                  /\ SubSeq(lines, 4 + ni + nk, 3 + ni + nk + nv)
                        \in Orderings(before.instance_tag_values)
                  /\ lines[4 + ni + nk + nv] = BUCKET_NAMES_MARKER
                  /\ SubSeq(lines, 5 + ni + nk + nv, 4 + ni + nk + nv + nb)
                        = before.bucket_names

\* two ids written in sequence order ahead of three markers with no entries
C15_Witness ==
    /\ pc = "to_load"
    /\ saved = "ok"
    /\ before.instance_ids = <<s_a_b, s_i1>>
    /\ before.instance_tag_keys = {}
    /\ before.instance_tag_values = {}
    /\ before.bucket_names = <<>>
    /\ Bodies(cache.text) =
          <<INSTANCE_IDS_MARKER, s_a_b, s_i1, INSTANCE_TAG_KEYS_MARKER,
            INSTANCE_TAG_VALUES_MARKER, BUCKET_NAMES_MARKER>>

\* ------------------------------------------------------------------------
\* C17
\* ------------------------------------------------------------------------

\* no entry of m is blank, contains a marker or contains a newline
Clean(m) ==
    LET ok(x) == /\ ~IsBlank(x)
                 /\ \A mk \in Markers : ~Contains(x, mk)
                 /\ \A i \in 1..Len(x) : x[i] # NL
    IN  /\ \A i \in 1..Len(m.instance_ids) : ok(m.instance_ids[i])
        /\ \A i \in 1..Len(m.bucket_names) : ok(m.bucket_names[i])
        /\ \A x \in m.instance_tag_keys \cup m.instance_tag_values : ok(x)

\* C17: whatever the cache file holds, the ResourceSet a load leaves has no
\* blank entry, no entry containing a marker and no entry containing a
\* newline, and load, save, load ends with the ResourceSet of the first load
\* (so a cache-hit refresh, which is a load and a save, leaves a file whose
\* next load gives the same ResourceSet again).
C17_CacheHitFixpoint ==
    /\ pc \in {"to_save", "loaded_twice", "loaded"} => Clean(Mem)
    /\ pc = "to_load" => Clean(before) /\ Mem = before
    /\ pc = "loaded" =>
          /\ calls = <<"refresh_resources_from_file", "save_resources_to_file",
                       "refresh_resources_from_file">>
          /\ Mem = before

\* a file with no ids marker, a duplicated tag key and no final newline,
\* rewritten in the fixed format, loads back to the same ResourceSet
C17_Witness ==
    /\ pc = "loaded"
    /\ cache0.text = s_padded \o <<NL>> \o INSTANCE_TAG_KEYS_MARKER \o <<NL>>
                        \o s_i1 \o <<NL>> \o s_i1
    /\ cache.text # cache0.text
    /\ instance_ids = <<s_padded>>
    /\ instance_tag_keys = {s_i1}
    /\ Mem = before

\* ------------------------------------------------------------------------
\* C16
\* ------------------------------------------------------------------------

\* C16: from the moment refresh_resources_from_file failed at the open to
\* the end of that refresh call, every collection whose query did not return
\* (it failed, is disabled, or has not run yet) holds the value it had when
\* refresh was called; right after the failed load that is all four.
C16_FailedLoadKeepsMemory ==
    (loaded.called /\ ~loaded.opened) =>
        \A q \in Queries :
            results[q].status # "ok" => HeldFor(q) = before[CategoryOf(q)]

\* the open failed on a store filled by an earlier cache hit; the ids query
\* failed and the buckets are disabled: both kept their entries
C16_Witness ==
    /\ pc = "done"
    /\ loaded.called /\ ~loaded.opened
    /\ results["query_instance_ids"] = Failed
    /\ instance_ids = <<s_i0>>
    /\ ~refresh_bucket_names
    /\ bucket_names = <<s_b_old>>
    /\ results["query_instance_tag_keys"].status = "ok"
    /\ instance_tag_keys # before.instance_tag_keys

\* ------------------------------------------------------------------------
\* C18
\* ------------------------------------------------------------------------

\* a cache file of the four marker lines and no entry
FourMarkersOnly ==
    INSTANCE_IDS_MARKER \o <<NL>> \o INSTANCE_TAG_KEYS_MARKER \o <<NL>>
        \o INSTANCE_TAG_VALUES_MARKER \o <<NL>> \o BUCKET_NAMES_MARKER \o <<NL>>

\* C18: the first refresh(force_refresh=False) of a store with no cache
\* file, when no query returned and the save succeeded, leaves a cache
\* file of the four markers and no entry; and every refresh(False) that loads
\* such a file invokes no query, ends with the four collections empty and,
\* its save succeeding, leaves the file as it was, so the same holds for
\* the next call, until refresh(True) is called.
C18_FailedRefreshSuppressesQueries ==
    pc = "done" =>
        /\ (/\ ncalls = 1 /\ ~force_arg /\ ~cache0.exists /\ saved = "ok"
            /\ \A q \in Queries : results[q].status # "ok")
              => (cache = File(FourMarkersOnly) /\ Mem = EmptyMem)
        /\ (~force_arg /\ cache0 = File(FourMarkersOnly) /\ loaded.complete)
              => /\ QueryCalls = <<>>
                 /\ \A q \in Queries : results[q] = NotRun
                 /\ Mem = EmptyMem
                 /\ saved = "ok" => cache = File(FourMarkersOnly)

\* the second refresh(False) of a store with every flag on found the file
\* of four markers that the first one left, and ran no query
C18_Witness ==
    /\ pc = "done"
    /\ ncalls = 2
    /\ ~force_arg
    /\ refresh_instance_ids /\ refresh_instance_tags /\ refresh_bucket_names
    /\ faults = 0
    /\ cache0 = File(FourMarkersOnly)
    /\ loaded.complete
    /\ calls = <<"refresh_resources_from_file", "save_resources_to_file">>
    /\ Mem = EmptyMem
    /\ cache = File(FourMarkersOnly)

====
